---- MODULE Spec2Model ----
(***************************************************************************)
(* A model of src/main.py: one run of the comic slideshow generator.       *)
(*                                                                         *)
(* main() asks the language model for scenario pairs (generate_scenarios), *)
(* composes one prompt per pair (create_final_prompt), submits one         *)
(* generate_image task per prompt to a thread pool, collects the futures   *)
(* in submission order and prints a summary.                               *)
(*                                                                         *)
(* The external services and the file system are modelled by the outcomes  *)
(* they can produce: every request may fail, the language model may        *)
(* refuse or answer with a list of any length, the image payload may be    *)
(* malformed, making the folder may fail or find the folder of another run *)
(* of the same second, opening or writing the output file may fail, and    *)
(* every console write (print) may fail.                                   *)
(***************************************************************************)
EXTENDS Integers, Sequences, FiniteSets, TLC

VARIABLES
    pc,             \* position of the main thread in main()
    output_folder,  \* main: output_folder (the timestamp that names it)
    llm_requests,   \* requests sent to the language-model service
    llm_response,   \* what the language-model service answered, <<>> before
    scenarios,      \* main: scenarios
    slide_num,      \* main: slide_num of the compose loop
    final_prompts,  \* main: final_prompts
    tasks,          \* the submitted generate_image calls (futures), by index
    img_requests,   \* requests sent to the image service, by index
    files,          \* the files of the run's output folder, by file number
    results,        \* main: results
    collected,      \* the futures the collect loop of main() is through with
    except_taken,   \* the except branch around future.result() was taken
    uncaught,       \* the exception raised in main(): "none", "makedirs", "console"
                    \* (a print of main) or "generate_scenarios"; pc stays where
                    \* it was raised
    console         \* the last of its own messages main() printed

vars == <<pc, output_folder, llm_requests, llm_response, scenarios, slide_num,
          final_prompts, tasks, img_requests, files, results, collected,
          except_taken, uncaught, console>>

(***************************************************************************)
(* Bounds of the model.                                                    *)
(***************************************************************************)
\* the longest scenario list the language model answers with
MaxResponseLen == 5
\* create_final_prompt is applied to the slide numbers 0..MaxSlide
MaxSlide == 6
\* the second the run starts at
StartSecond == 1
\* a cap on the requests per slot, never reached by the code
MaxAttempts == 2
\* the number of the file another run of the same second left in the folder
ForeignFile == 2

(***************************************************************************)
(* Constants of the program.                                               *)
(***************************************************************************)
MinLength == 4
MaxLength == 4
MaxWorkers == 4
SummaryTotal == 4
HookSlide == 1
SubtleSlide == 3

None == <<>>

Texts == {"t1", "t2"}

\* class ScenarioPair: four text fields
ScenarioPair == [success : Texts, work : Texts, top_text : Texts, bottom_text : Texts]

\* the pairs the language model of the run answers with
Pair(t) == [success |-> t, work |-> t, top_text |-> t, bottom_text |-> t]
RunPairs == {Pair(t) : t \in Texts}

\* the lists of n pairs the language model of the run answers with: the two
\* pairs take turns
RunLists(n) ==
    { l \in [1..n -> RunPairs] :
        \A k \in 1..n : l[k] = (IF k % 2 = 1 THEN Pair("t1") ELSE Pair("t2")) }

\* class ComicScenarioPairs: the list must hold min_length..max_length pairs
ComicScenarioPairs(list) == Len(list) >= MinLength /\ Len(list) <= MaxLength

TaskIds == 0..(MaxResponseLen - 1)
FileNumbers == 0..(MaxResponseLen + 1)

(***************************************************************************)
(* create_final_prompt                                                     *)
(***************************************************************************)
\* the elif written `slide_number >= 3`
engagement_instruction_from_third(slide_number) ==
    IF slide_number = HookSlide THEN "MANDATORY"
    ELSE IF slide_number >= SubtleSlide THEN "SUBTLE PROVOCATIVE"
    ELSE "CLEAN FOCUS"

\* the <background_details> block chosen by the if/elif/else
engagement_instruction(slide_number) ==
    IF slide_number = HookSlide THEN "MANDATORY"
    ELSE IF slide_number = SubtleSlide THEN "SUBTLE PROVOCATIVE"
    ELSE "CLEAN FOCUS"

\* the conditional expression of the <engagement_strategy> line
engagement_strategy(slide_number) ==
    IF slide_number = HookSlide THEN "MANDATORY edgy elements for hook (NO POLITICS)"
    ELSE IF slide_number = SubtleSlide THEN "SUBTLE provocative elements (NO POLITICS)"
    ELSE "CLEAN focus on message"

\* the prompt, by the places the template fills in
create_final_prompt(scenario, slide_number) ==
    [ slide               |-> slide_number,
      engagement_strategy |-> engagement_strategy(slide_number),
      top_scene           |-> scenario.success,
      top_details         |-> engagement_instruction(slide_number),
      top_text            |-> scenario.top_text,
      bottom_scene        |-> scenario.work,
      bottom_details      |-> engagement_instruction(slide_number),
      bottom_text         |-> scenario.bottom_text ]

(***************************************************************************)
(* generate_scenarios                                                      *)
(***************************************************************************)
\* what the language-model service can answer
LlmResponses ==
    { [kind |-> k, scenarios |-> <<>>] :
        k \in {"transport_error", "malformed", "refusal", "empty"} }
    \cup
    { [kind |-> "parsed", scenarios |-> l] :
        l \in UNION { RunLists(n) : n \in 0..MaxResponseLen } }

Raise == [exc |-> TRUE, value |-> <<>>]
Return(v) == [exc |-> FALSE, value |-> v]

\* client.beta.chat.completions.parse(...): raises on a transport error, on a
\* response that is not JSON and on one that fails the schema's validation
parse(resp) ==
    IF resp.kind \in {"transport_error", "malformed"} THEN Raise
    ELSE IF resp.kind = "parsed" /\ ~ComicScenarioPairs(resp.scenarios) THEN Raise
    ELSE Return([ refusal |-> resp.kind = "refusal",
                  parsed  |-> IF resp.kind = "parsed" THEN <<resp.scenarios>> ELSE None ])

\* the body of the try block from the call of parse on; printed: the print of
\* the body (line 212 or 216) succeeds
generate_scenarios_try(resp, printed) ==
    LET completion == parse(resp) IN
    IF completion.exc THEN Raise
    ELSE LET message == completion.value IN
         IF message.refusal
         THEN IF printed THEN Return(<<>>) ELSE Raise
         ELSE IF message.parsed = None THEN Raise   \* None has no .scenarios
         ELSE IF printed THEN Return(message.parsed[1]) ELSE Raise

\* except Exception: print(...); return []; logged: that print succeeds
generate_scenarios_except(r, logged) ==
    IF r.exc THEN (IF logged THEN Return(<<>>) ELSE Raise) ELSE r

\* generate_scenarios from the answer of the service on
generate_scenarios(resp, printed, logged) ==
    generate_scenarios_except(generate_scenarios_try(resp, printed), logged)

(***************************************************************************)
(* generate_image                                                          *)
(***************************************************************************)
NoTask == [state |-> "unsubmitted", prompt |-> None, image |-> None,
           result |-> None, raised |-> FALSE]

NoFile == [state |-> "absent", image |-> None, writers |-> {}]

\* the bytes of the image the service renders for a prompt
ImageOf(prompt) == [content |-> "image", prompt |-> <<prompt>>]
\* the bytes left of a payload that is not base64 text, such as b''
OtherBytes == [content |-> "other", prompt |-> None]
\* the bytes of a file of another run
ForeignBytes == [content |-> "foreign", prompt |-> None]

\* a payload, by what base64.b64decode(s) with validate=False looks at:
\* characters outside the alphabet are dropped, a wrong padding raises
b64encode(bytes) == [padding |-> TRUE, alphabet |-> TRUE, of |-> <<bytes>>]
\* a payload of characters outside the alphabet, such as '!!!!' or ''
NonAlphabet == [padding |-> TRUE, alphabet |-> FALSE, of |-> None]
\* a payload whose length is wrong, such as 'abc'
BadPadding == [padding |-> FALSE, alphabet |-> TRUE, of |-> None]

b64decode(payload) ==
    IF ~payload.padding THEN Raise
    ELSE IF payload.alphabet THEN Return(payload.of)
    ELSE Return(<<OtherBytes>>)

\* what the image service can answer to a prompt
ImageResponses(prompt) ==
    { [kind |-> "transport_error", b64_json |-> BadPadding],
      [kind |-> "data", b64_json |-> BadPadding],
      [kind |-> "data", b64_json |-> NonAlphabet],
      [kind |-> "data", b64_json |-> b64encode(ImageOf(prompt[1]))] }

\* filename = f"comic_{index + 1}.png", by its number
filename(index) == index + 1

\* filepath = os.path.join(output_folder, filename)
filepath(index) == <<output_folder, filename(index)>>

\* an exception outside the try block: the worker stores it in the future
generate_image_raise(t) ==
    [t EXCEPT !.state = "done", !.image = None, !.result = None, !.raised = TRUE]

\* a handler that puts the call back in the queue
generate_image_except_retry(t, logged) ==
    [t EXCEPT !.state = "queued", !.image = None]

\* except Exception: print(...); return None; logged: that print succeeds,
\* else its exception leaves generate_image
generate_image_except(t, logged) ==
    IF logged
    THEN [t EXCEPT !.state = "done", !.image = None, !.result = None, !.raised = FALSE]
    ELSE generate_image_raise(t)

\* future.result() returns or raises: the call has finished
future_done(i) == tasks[i].state = "done"

Submitted == {i \in TaskIds : tasks[i].state # "unsubmitted"}
Running == {i \in TaskIds :
              tasks[i].state \in {"taken", "requesting", "decoded", "opened", "written"}}
Queued == {i \in TaskIds : tasks[i].state = "queued"}

(***************************************************************************)
(* The run                                                                 *)
(***************************************************************************)
NoMessage == [kind |-> "none", k |-> 0, total |-> 0, folder |-> 0]

Init ==
    /\ pc = "start"
    /\ output_folder = 0
    /\ llm_requests = 0
    /\ llm_response = <<>>
    /\ scenarios = <<>>
    /\ slide_num = 0
    /\ final_prompts = <<>>
    /\ tasks = [i \in TaskIds |-> NoTask]
    /\ img_requests = [i \in TaskIds |-> 0]
    /\ files = [n \in FileNumbers |-> NoFile]
    /\ results = <<>>
    /\ collected = 0
    /\ except_taken = FALSE
    /\ uncaught = "none"
    /\ console = NoMessage

\* main up to the request of generate_scenarios(): output_folder is named after
\* the clock; os.makedirs(exist_ok=True) raises, makes the folder or finds the
\* folder of another run of this second with a file in it; the prints of
\* lines 255 and 129 are outside any try; then the request is sent
Start ==
    /\ pc = "start"
    /\ uncaught = "none"
    /\ output_folder' = StartSecond
    /\ \E step \in {"makedirs", "print_created", "print_generating", "request"},
          found \in BOOLEAN :
         /\ files' = IF step # "makedirs" /\ found
                     THEN [files EXCEPT ![ForeignFile] =
                              [state |-> "complete", image |-> <<ForeignBytes>>,
                               writers |-> {}]]
                     ELSE files
         /\ CASE step = "makedirs" ->
                   /\ uncaught' = "makedirs"
                   /\ ~found
                   /\ UNCHANGED <<pc, llm_requests, console>>
              [] step = "print_created" ->
                   /\ uncaught' = "console"
                   /\ UNCHANGED <<pc, llm_requests, console>>
              [] step = "print_generating" ->
                   /\ pc' = "generate_scenarios"
                   /\ uncaught' = "generate_scenarios"
                   /\ console' = [kind |-> "created_folder", k |-> 0, total |-> 0,
                                  folder |-> output_folder']
                   /\ UNCHANGED llm_requests
              [] step = "request" ->
                   /\ pc' = "generate_scenarios"
                   /\ llm_requests' = llm_requests + 1
                   /\ console' = [kind |-> "created_folder", k |-> 0, total |-> 0,
                                  folder |-> output_folder']
                   /\ UNCHANGED uncaught
    /\ UNCHANGED <<llm_response, scenarios, slide_num, final_prompts, tasks,
                   img_requests, results, collected, except_taken>>

\* the service answers; generate_scenarios() returns or raises and main tests
\* `if not scenarios`
ScenariosReturn ==
    /\ pc = "generate_scenarios"
    /\ uncaught = "none"
    /\ \E resp \in LlmResponses, printed \in BOOLEAN, logged \in BOOLEAN :
         LET r == generate_scenarios(resp, printed, logged) IN
         /\ llm_response' = <<resp>>
         /\ IF r.exc
            THEN uncaught' = "generate_scenarios" /\ UNCHANGED <<pc, scenarios>>
            ELSE /\ scenarios' = r.value
                 /\ pc' = IF r.value = <<>> THEN "no_scenarios" ELSE "has_scenarios"
                 /\ UNCHANGED uncaught
    /\ UNCHANGED <<output_folder, llm_requests, slide_num, final_prompts, tasks,
                   img_requests, files, results, collected, except_taken, console>>

\* print("Could not generate scenarios. Exiting."); return
ExitEarly ==
    /\ pc = "no_scenarios"
    /\ uncaught = "none"
    /\ \E printed \in BOOLEAN :
         IF printed
         THEN /\ console' = [kind |-> "no_scenarios", k |-> 0, total |-> 0, folder |-> 0]
              /\ pc' = "done"
              /\ UNCHANGED uncaught
         ELSE /\ uncaught' = "console"
              /\ UNCHANGED <<pc, console>>
    /\ UNCHANGED <<output_folder, llm_requests, llm_response, scenarios, slide_num,
                   final_prompts, tasks, img_requests, files, results, collected,
                   except_taken>>

\* final_prompts = []
BeginCompose ==
    /\ pc = "has_scenarios"
    /\ uncaught = "none"
    /\ final_prompts' = <<>>
    /\ pc' = "compose"
    /\ UNCHANGED <<output_folder, llm_requests, llm_response, scenarios, slide_num,
                   tasks, img_requests, files, results, collected, except_taken,
                   uncaught, console>>

\* one iteration of: for i, scenario in enumerate(scenarios)
ComposePrompt ==
    /\ pc = "compose"
    /\ uncaught = "none"
    /\ Len(final_prompts) < Len(scenarios)
    /\ LET i == Len(final_prompts) IN
         /\ slide_num' = i + 1
         /\ final_prompts' = Append(final_prompts,
                                    create_final_prompt(scenarios[i + 1], slide_num'))
    /\ UNCHANGED <<pc, output_folder, llm_requests, llm_response, scenarios, tasks,
                   img_requests, files, results, collected, except_taken, uncaught,
                   console>>

\* the executor opened inside the compose loop, after the first prompt
OpenExecutor_in_loop ==
    /\ pc = "compose"
    /\ uncaught = "none"
    /\ Len(final_prompts) >= 1
    /\ \E printed \in BOOLEAN :
         IF printed
         THEN /\ pc' = "submit"
              /\ console' = [kind |-> "starting", k |-> Len(final_prompts),
                             total |-> 0, folder |-> 0]
              /\ UNCHANGED uncaught
         ELSE /\ uncaught' = "console"
              /\ UNCHANGED <<pc, console>>
    /\ UNCHANGED <<output_folder, llm_requests, llm_response, scenarios, slide_num,
                   final_prompts, tasks, img_requests, files, results, collected,
                   except_taken>>

\* the loop ends; the prints of lines 269 and 270; with
\* ThreadPoolExecutor(max_workers=4) as executor; the print of line 274
OpenExecutor ==
    /\ pc = "compose"
    /\ uncaught = "none"
    /\ Len(final_prompts) = Len(scenarios)
    /\ \E printed \in BOOLEAN :
         IF printed
         THEN /\ pc' = "submit"
              /\ console' = [kind |-> "starting", k |-> Len(final_prompts),
                             total |-> 0, folder |-> 0]
              /\ UNCHANGED uncaught
         ELSE /\ uncaught' = "console"
              /\ UNCHANGED <<pc, console>>
    /\ UNCHANGED <<output_folder, llm_requests, llm_response, scenarios, slide_num,
                   final_prompts, tasks, img_requests, files, results, collected,
                   except_taken>>

\* one executor.submit(generate_image, prompt, i, output_folder) of the list
\* comprehension; after the last one, results = []
Submit ==
    /\ pc = "submit"
    /\ uncaught = "none"
    /\ LET i == Cardinality(Submitted) IN
         IF i < Len(final_prompts)
         THEN /\ tasks' = [tasks EXCEPT ![i] = [NoTask EXCEPT !.state = "queued",
                                                             !.prompt = <<final_prompts[i + 1]>>]]
              /\ UNCHANGED <<pc, results, collected>>
         ELSE /\ results' = <<>>
              /\ collected' = 0
              /\ pc' = "wait"
              /\ UNCHANGED tasks
    /\ UNCHANGED <<output_folder, llm_requests, llm_response, scenarios, slide_num,
                   final_prompts, img_requests, files, except_taken, uncaught, console>>

\* a free worker takes the oldest call from the executor's queue
TakeTask(i) ==
    /\ tasks[i].state = "queued"
    /\ \A j \in Queued : i <= j
    /\ Cardinality(Running) < MaxWorkers
    /\ tasks' = [tasks EXCEPT ![i].state = "taken"]
    /\ UNCHANGED <<pc, output_folder, llm_requests, llm_response, scenarios, slide_num,
                   final_prompts, img_requests, files, results, collected,
                   except_taken, uncaught, console>>

\* generate_image starts: print(f"Generating image {index + 1}..."), outside
\* the try block, then the request of client.images.generate is sent
StartTask(i) ==
    /\ tasks[i].state = "taken"
    /\ img_requests[i] < MaxAttempts
    /\ \E printed \in BOOLEAN :
         IF printed
         THEN /\ img_requests' = [img_requests EXCEPT ![i] = @ + 1]
              /\ tasks' = [tasks EXCEPT ![i].state = "requesting"]
         ELSE /\ tasks' = [tasks EXCEPT ![i] = generate_image_raise(@)]
              /\ UNCHANGED img_requests
    /\ UNCHANGED <<pc, output_folder, llm_requests, llm_response, scenarios, slide_num,
                   final_prompts, files, results, collected, except_taken, uncaught,
                   console>>

\* client.images.generate returns or raises; the payload is decoded
ImageResponse(i) ==
    /\ tasks[i].state = "requesting"
    /\ \E resp \in ImageResponses(tasks[i].prompt), logged \in BOOLEAN :
         IF resp.kind = "transport_error"
         THEN tasks' = [tasks EXCEPT ![i] = generate_image_except(@, logged)]
         ELSE LET image_bytes == b64decode(resp.b64_json) IN
              IF image_bytes.exc
              THEN tasks' = [tasks EXCEPT ![i] = generate_image_except(@, logged)]
              ELSE /\ logged
                   /\ tasks' = [tasks EXCEPT ![i].state = "decoded",
                                             ![i].image = image_bytes.value]
    /\ UNCHANGED <<pc, output_folder, llm_requests, llm_response, scenarios, slide_num,
                   final_prompts, img_requests, files, results, collected,
                   except_taken, uncaught, console>>

\* open(filepath, "wb"): raises, or creates the file empty (an existing file
\* is emptied)
OpenFile(i) ==
    /\ tasks[i].state = "decoded"
    /\ \E ok \in BOOLEAN, logged \in BOOLEAN :
         IF ok
         THEN /\ logged
              /\ files' = [files EXCEPT ![filepath(i)[2]] =
                              [state |-> "partial", image |-> None,
                               writers |-> @.writers \cup {i}]]
              /\ tasks' = [tasks EXCEPT ![i].state = "opened"]
         ELSE /\ tasks' = [tasks EXCEPT ![i] = generate_image_except(@, logged)]
              /\ UNCHANGED files
    /\ UNCHANGED <<pc, output_folder, llm_requests, llm_response, scenarios, slide_num,
                   final_prompts, img_requests, results, collected, except_taken,
                   uncaught, console>>

\* f.write(image_bytes) and the close at the end of the with block: raises
\* and leaves the file as it is, or stores the bytes
WriteFile(i) ==
    /\ tasks[i].state = "opened"
    /\ \E ok \in BOOLEAN, logged \in BOOLEAN :
         IF ok
         THEN /\ logged
              /\ files' = [files EXCEPT ![filepath(i)[2]].state = "complete",
                                        ![filepath(i)[2]].image = tasks[i].image]
              /\ tasks' = [tasks EXCEPT ![i].state = "written"]
         ELSE /\ tasks' = [tasks EXCEPT ![i] = generate_image_except(@, logged)]
              /\ UNCHANGED files
    /\ UNCHANGED <<pc, output_folder, llm_requests, llm_response, scenarios, slide_num,
                   final_prompts, img_requests, results, collected, except_taken,
                   uncaught, console>>

\* print(f"Successfully saved image ..."), inside the try block; return filepath
ReturnPath(i) ==
    /\ tasks[i].state = "written"
    /\ \E printed \in BOOLEAN, logged \in BOOLEAN :
         IF printed
         THEN /\ logged
              /\ tasks' = [tasks EXCEPT ![i].state = "done", ![i].image = None,
                                        ![i].result = filepath(i)]
         ELSE tasks' = [tasks EXCEPT ![i] = generate_image_except(@, logged)]
    /\ UNCHANGED <<pc, output_folder, llm_requests, llm_response, scenarios, slide_num,
                   final_prompts, img_requests, files, results, collected,
                   except_taken, uncaught, console>>

\* one iteration of: for i, future in enumerate(futures), blocking in
\* future.result(). try: the result is appended, then print(f"Completed image
\* ..."); except: print(f"Failed to generate image ..."), then None is
\* appended. completed, failed: those prints succeed
Collect ==
    /\ pc = "wait"
    /\ uncaught = "none"
    /\ collected < Cardinality(Submitted)
    /\ future_done(collected)
    /\ \E completed \in BOOLEAN, failed \in BOOLEAN :
         LET i == collected
             appended == IF tasks[i].raised THEN results
                         ELSE Append(results, tasks[i].result)
             handled == tasks[i].raised \/ ~completed
         IN
         /\ tasks[i].raised => completed
         /\ ~handled => failed
         /\ except_taken' = (except_taken \/ handled)
         /\ IF handled /\ ~failed
            THEN /\ results' = appended
                 /\ uncaught' = "console"
                 /\ UNCHANGED collected
            ELSE /\ results' = IF handled THEN Append(appended, None) ELSE appended
                 /\ collected' = collected + 1
                 /\ UNCHANGED uncaught
    /\ UNCHANGED <<pc, output_folder, llm_requests, llm_response, scenarios, slide_num,
                   final_prompts, tasks, img_requests, files, console>>

\* the with block ends: executor.shutdown(wait=True)
CloseExecutor ==
    /\ pc = "wait"
    /\ uncaught = "none"
    /\ collected = Cardinality(Submitted)
    /\ \A i \in Submitted : future_done(i)
    /\ pc' = "aggregate"
    /\ UNCHANGED <<output_folder, llm_requests, llm_response, scenarios, slide_num,
                   final_prompts, tasks, img_requests, files, results, collected,
                   except_taken, uncaught, console>>

\* every slot counted, None included
successful_images_all(rs) == rs

\* successful_images = [r for r in results if r]
successful_images(rs) == SelectSeq(rs, LAMBDA r : r # None)

\* the two summary lines: the count (line 289) and the folder (line 290)
Summary ==
    /\ pc = "aggregate"
    /\ uncaught = "none"
    /\ \E count_printed \in BOOLEAN, folder_printed \in BOOLEAN :
         /\ ~count_printed => folder_printed
         /\ IF ~count_printed
            THEN uncaught' = "console" /\ UNCHANGED <<pc, console>>
            ELSE IF ~folder_printed
            THEN /\ uncaught' = "console"
                 /\ console' = [kind |-> "summary_count",
                                k |-> Len(successful_images(results)),
                                total |-> SummaryTotal, folder |-> 0]
                 /\ UNCHANGED pc
            ELSE /\ console' = [kind |-> "summary",
                                k |-> Len(successful_images(results)),
                                total |-> SummaryTotal, folder |-> output_folder]
                 /\ pc' = "done"
                 /\ UNCHANGED uncaught
    /\ UNCHANGED <<output_folder, llm_requests, llm_response, scenarios, slide_num,
                   final_prompts, tasks, img_requests, files, results, collected,
                   except_taken>>

Next ==
    \/ Start
    \/ ScenariosReturn
    \/ ExitEarly
    \/ BeginCompose
    \/ ComposePrompt
    \/ OpenExecutor
    \/ Submit
    \/ \E i \in TaskIds : TakeTask(i)
    \/ \E i \in TaskIds : StartTask(i)
    \/ \E i \in TaskIds : ImageResponse(i)
    \/ \E i \in TaskIds : OpenFile(i)
    \/ \E i \in TaskIds : WriteFile(i)
    \/ \E i \in TaskIds : ReturnPath(i)
    \/ Collect
    \/ CloseExecutor
    \/ Summary

Spec == Init /\ [][Next]_vars

(***************************************************************************)
(* create_final_prompt on its own: any scenario pair, any slide number     *)
(***************************************************************************)
InitCompose ==
    /\ pc = "compose_call"
    /\ output_folder = 0
    /\ llm_requests = 0
    /\ llm_response = <<>>
    /\ \E scenario \in ScenarioPair : scenarios = <<scenario>>
    /\ slide_num \in 0..MaxSlide
    /\ final_prompts = <<>>
    /\ tasks = [i \in TaskIds |-> NoTask]
    /\ img_requests = [i \in TaskIds |-> 0]
    /\ files = [n \in FileNumbers |-> NoFile]
    /\ results = <<>>
    /\ collected = 0
    /\ except_taken = FALSE
    /\ uncaught = "none"
    /\ console = NoMessage

ComposeCall ==
    /\ pc = "compose_call"
    /\ final_prompts' = <<create_final_prompt(scenarios[1], slide_num)>>
    /\ pc' = "compose_return"
    /\ UNCHANGED <<output_folder, llm_requests, llm_response, scenarios, slide_num,
                   tasks, img_requests, files, results, collected, except_taken,
                   uncaught, console>>

NextCompose == ComposeCall

SpecCompose == InitCompose /\ [][NextCompose]_vars

(***************************************************************************)
(* What the properties speak of                                            *)
(***************************************************************************)
\* the calls that returned a file path, and those that did not
Succeeded == {i \in TaskIds : tasks[i].state = "done" /\ tasks[i].result # None}
Failed == {i \in TaskIds : tasks[i].state = "done" /\ tasks[i].result = None}

FilesPresent == {n \in FileNumbers : files[n].state # "absent"}
\* the files a call of this run opened
FilesWritten == {n \in FileNumbers : files[n].writers # {}}
ImageRequestsSent == {i \in TaskIds : img_requests[i] > 0}

\* generate_scenarios() has returned to main()
Returned == pc \notin {"start", "generate_scenarios"}

\* main() has ended: by returning, or by an exception, which leaves the with
\* block once the executor's shutdown has waited for the calls
Terminated ==
    \/ pc = "done"
    \/ uncaught # "none" /\ \A i \in Submitted : future_done(i)

\* the prompt main() composes from the n-th scenario, n counted from 0
ComposedFrom(n) == create_final_prompt(scenarios[n + 1], n + 1)

\* the stages of a run
StageOf(p) ==
    CASE p = "start" -> "Idle"
      [] p = "generate_scenarios" -> "GeneratingScenarios"
      [] p = "no_scenarios" -> "NoScenarios"
      [] p = "has_scenarios" -> "HasScenarios"
      [] p = "compose" -> "ComposingPrompts"
      [] p \in {"submit", "wait"} -> "GeneratingImages"
      [] p = "aggregate" -> "Aggregating"
      [] p = "done" -> "Done"

StageEdges ==
    { <<"Idle", "GeneratingScenarios">>,
      <<"GeneratingScenarios", "NoScenarios">>,
      <<"NoScenarios", "Done">>,
      <<"GeneratingScenarios", "HasScenarios">>,
      <<"HasScenarios", "ComposingPrompts">>,
      <<"ComposingPrompts", "GeneratingImages">>,
      <<"GeneratingImages", "Aggregating">>,
      <<"Aggregating", "Done">> }

(***************************************************************************)
(* C1: when generate_scenarios() yields an empty result the run terminates *)
(* normally, never calls generate_image and creates no file: no call is    *)
(* submitted, no image request is sent, no file is written, and the run    *)
(* ends by the return of main(), not by an exception.                      *)
(***************************************************************************)
C1_NoScenariosNoImages ==
    (Returned /\ scenarios = <<>>) =>
        /\ Submitted = {}
        /\ ImageRequestsSent = {}
        /\ FilesWritten = {}
        /\ uncaught = "none"
        /\ (Terminated => pc = "done")

(***************************************************************************)
(* C2: when generate_scenarios() returned 4 scenarios and the run is done, *)
(* the files present in the output folder are exactly the files            *)
(* comic_(i+1).png of the calls i that succeeded, each complete.           *)
(***************************************************************************)
C2_FilesAreTheSuccesses ==
    (pc = "done" /\ Len(scenarios) = MaxLength) =>
        /\ FilesPresent = {filename(i) : i \in Succeeded}
        /\ \A n \in FilesPresent : files[n].state = "complete"

(***************************************************************************)
(* C3, as stated: every run of main() that reaches its end ends with the   *)
(* summary stating k out of 4 images and the output folder, k being the    *)
(* number of images produced, also when there were no scenarios.           *)
(***************************************************************************)
C3_AlwaysSummary ==
    pc = "done" =>
        console = [kind |-> "summary", k |-> Cardinality(Succeeded),
                   total |-> SummaryTotal, folder |-> output_folder]

(***************************************************************************)
(* C3, amended: a run that returns after a non-empty scenario list ends    *)
(* with the summary stating k out of 4 and the output folder, k being the  *)
(* number of calls that returned a file path; a run that returns after an  *)
(* empty list ends with the message that no scenarios could be generated,  *)
(* without count or folder; a run that ends with an exception has not      *)
(* printed the whole summary.                                              *)
(***************************************************************************)
C3_SummaryUnlessNoScenarios ==
    /\ (pc = "done" /\ scenarios # <<>>) =>
          console = [kind |-> "summary", k |-> Cardinality(Succeeded),
                     total |-> SummaryTotal, folder |-> output_folder]
    /\ (pc = "done" /\ scenarios = <<>>) =>
          console = [kind |-> "no_scenarios", k |-> 0, total |-> 0, folder |-> 0]
    /\ uncaught # "none" => (pc # "done" /\ console.kind # "summary")
    /\ console.kind \in {"summary", "summary_count"} =>
          (console.k = Cardinality(Succeeded) /\ console.total = SummaryTotal)

\* a finished run with three paths and two empty slots in results
C3_Witness ==
    /\ pc = "done"
    /\ console.kind = "summary"
    /\ console.k = 3
    /\ Len(results) = 5
    /\ Cardinality(Failed) = 1

(***************************************************************************)
(* C4: in every interleaving, each submitted call has the prompt composed  *)
(* from the scenario of its index, no file of the run is written by two    *)
(* calls, each file the run wrote holds what the call of its number        *)
(* decoded, and slot i of results is the outcome of call i, so that        *)
(* results depends on the outcomes alone.                                  *)
(***************************************************************************)
C4_SlotsFollowInputOrder ==
    /\ \A i \in Submitted : tasks[i].prompt = <<ComposedFrom(i)>>
    /\ \A n \in FilesWritten : files[n].writers = {n - 1}
    /\ \A n \in FilesWritten :
          files[n].state = "complete" =>
              files[n].image \in {<<ImageOf(ComposedFrom(n - 1))>>, <<OtherBytes>>}
    /\ Len(results) <= collected
    /\ \A k \in 1..Len(results) :
          k - 1 \in TaskIds /\ results[k] = tasks[k - 1].result

(***************************************************************************)
(* C5: generate_image never propagates a fault to its caller: no finished  *)
(* call has raised, a call returns the path only when its request was sent *)
(* and its file is complete, and the except branch around future.result()  *)
(* is never taken.                                                         *)
(***************************************************************************)
C5_ImageNeverRaises ==
    /\ \A i \in TaskIds : ~tasks[i].raised
    /\ \A i \in Succeeded :
          img_requests[i] = 1 /\ files[filename(i)].state = "complete"
    /\ ~except_taken

(***************************************************************************)
(* C6: generate_scenarios() never raises: a refusal, a transport error, a  *)
(* malformed or schema-violating response and a response with neither      *)
(* refusal nor parsed object give the empty list, and a non-empty list is  *)
(* returned only for a response parsed into the 4-pair schema.             *)
(***************************************************************************)
C6_ScenariosNeverRaise ==
    /\ uncaught # "generate_scenarios"
    /\ Returned =>
          LET resp == llm_response[1] IN
          /\ resp.kind \in {"transport_error", "malformed", "refusal", "empty"}
                => scenarios = <<>>
          /\ (resp.kind = "parsed" /\ ~ComicScenarioPairs(resp.scenarios))
                => scenarios = <<>>
          /\ scenarios # <<>> =>
                /\ resp.kind = "parsed"
                /\ ComicScenarioPairs(resp.scenarios)
                /\ scenarios = resp.scenarios

(***************************************************************************)
(* C7: no retry: at most one request goes to the language-model service    *)
(* and at most one to the image service for each slot, whatever its        *)
(* outcome, and a call that has failed stays failed.                       *)
(***************************************************************************)
C7_CountsInv ==
    /\ llm_requests <= 1
    /\ \A i \in TaskIds : img_requests[i] <= 1
    /\ \A i \in TaskIds : img_requests[i] = 1 => i \in Submitted
    /\ Cardinality(Submitted) <= MaxLength

C7_FailedStays ==
    \A i \in TaskIds :
        (tasks[i].state = "done" /\ tasks[i].result = None) =>
            (tasks'[i] = tasks[i] /\ img_requests'[i] = img_requests[i])

C7_NoRetry == []C7_CountsInv /\ [][C7_FailedStays]_vars

\* a finished run in which a call failed after its one request
C7_Witness ==
    /\ pc = "done"
    /\ \E i \in Failed : img_requests[i] = 1 /\ ~tasks[i].raised
    /\ \E i \in Failed : img_requests[i] = 0 /\ tasks[i].raised
    /\ llm_requests = 1

(***************************************************************************)
(* C8: create_final_prompt chooses the engagement modifier by the slide    *)
(* number alone: 1 gives the MANDATORY block, 3 the SUBTLE PROVOCATIVE     *)
(* block, every other number the CLEAN FOCUS block; the prompt holds one   *)
(* kind only, and the engagement_strategy line is of the same kind.        *)
(***************************************************************************)
C8_ModifierBySlide ==
    pc = "compose_return" =>
        LET p == final_prompts[1]
            kind == IF slide_num = 1 THEN "MANDATORY"
                    ELSE IF slide_num = 3 THEN "SUBTLE PROVOCATIVE"
                    ELSE "CLEAN FOCUS"
            line == CASE kind = "MANDATORY" -> "MANDATORY edgy elements for hook (NO POLITICS)"
                      [] kind = "SUBTLE PROVOCATIVE" -> "SUBTLE provocative elements (NO POLITICS)"
                      [] kind = "CLEAN FOCUS" -> "CLEAN focus on message"
        IN
        /\ p.top_details = kind
        /\ p.bottom_details = kind
        /\ p.engagement_strategy = line
        /\ p.slide = slide_num
        /\ \A other \in ScenarioPair :
              create_final_prompt(other, slide_num).top_details = p.top_details

\* the prompt of slide 4 has been composed
C8_Witness ==
    /\ pc = "compose_return"
    /\ slide_num = 4
    /\ final_prompts[1].top_details = "CLEAN FOCUS"

(***************************************************************************)
(* C9: a run moves through its stages in the order Idle,                   *)
(* GeneratingScenarios, then NoScenarios and Done, or HasScenarios,        *)
(* ComposingPrompts, GeneratingImages, Aggregating and Done, one stage at  *)
(* a time and never back; no image call is submitted or requested while    *)
(* the scenario call is outstanding, and every prompt is composed before   *)
(* the first call is submitted.                                            *)
(***************************************************************************)
C9_StageInv ==
    /\ ~Returned => (Submitted = {} /\ ImageRequestsSent = {} /\ final_prompts = <<>>)
    /\ StageOf(pc) \in {"NoScenarios", "HasScenarios", "ComposingPrompts"}
          => (Submitted = {} /\ ImageRequestsSent = {})
    /\ Submitted # {} =>
          /\ Len(final_prompts) = Len(scenarios)
          /\ \A k \in 1..Len(scenarios) : final_prompts[k] = ComposedFrom(k - 1)
    /\ StageOf(pc) \in {"Aggregating", "Done"} =>
          \A i \in Submitted : future_done(i)

C9_StageStep ==
    \/ StageOf(pc') = StageOf(pc)
    \/ <<StageOf(pc), StageOf(pc')>> \in StageEdges

C9_StageOrder == []C9_StageInv /\ [][C9_StageStep]_vars

\* a run that went through every stage of the long path
C9_Witness ==
    /\ pc = "done"
    /\ Len(scenarios) = MaxLength
    /\ Cardinality(Submitted) = MaxLength
    /\ Succeeded # {}

(***************************************************************************)
(* C10: the summary is never reported while a submitted call is still      *)
(* running, and every run reaches Done: a run that can take no further     *)
(* step is done.                                                           *)
(***************************************************************************)
C10_JoinAndTerminate ==
    /\ console.kind \in {"summary", "summary_count"} =>
          \A i \in Submitted : future_done(i)
    /\ (pc = "done" \/ ENABLED Next)

====
